---- MODULE Spec2Model ----
(***************************************************************************)
(* A model of the news-rss pipeline: the per-source health tracker and     *)
(* feed fetcher of src/collect_rss.py (process_rss_source and              *)
(* collect_rss_feeds), the relevance filter of src/utils.py                *)
(* (filter_by_keywords) and the keyword grouping of                        *)
(* src/generate_github_pages.py (group_news_by_keywords).                  *)
(***************************************************************************)
EXTENDS Integers, Sequences, FiniteSets, TLC

VARIABLES
    config,          \* config/health-check.json as read by collect_rss_feeds
    rss_sources,     \* config/rss-sources.json: the configured sources, in order
    persisted,       \* config/rss-health-status.json: url -> status
    cache,           \* the diskcache store cache/rss_feeds: url -> feed document
    phase,           \* position of collect_rss_feeds: "idle", "gather"
    runs,            \* number of runs of collect_rss_feeds started so far
    current_time,    \* current_time of the run, in hours
    loaded,          \* the health map as read at the start of the run
    health_status,   \* the in-memory health map: url -> reference to a dict
    entries,         \* the dict objects created by loading the health file
    fresh,           \* the default dict each task builds at line 57
    task,            \* the per-source coroutine: position, locals, requests made
    all_news,        \* all_news of the last aggregation
    invalid_sources, \* invalid_sources of the last aggregation
    streak,          \* per source: runs in a row with a failed probe since failures=0
    sources_found,   \* whether load_config finds a source list in config/rss-sources.json
    main_exit,       \* collect_rss.main of the last run: its exit code and its write
                     \* of output/raw_news.json, or None while it runs
    news,            \* the news list handed to the filter or to the grouping
    keywords,        \* the include keywords
    exclude_keywords,\* the exclude keywords, or None
    called,          \* which function has been applied: "none", "filter", "group"
    filtered,        \* the list filter_by_keywords returned
    keyword_groups,  \* the dict group_news_by_keywords returned
    stage,           \* run.py main: the index of the command it runs next
    log,             \* run.py: the commands run so far, each with its return code
                     \* and what run_command printed of it
    pipeline_exit    \* the exit code of run.py, or None while it runs

cvars == <<config, rss_sources, persisted, cache, phase, runs, current_time, loaded,
           health_status, entries, fresh, task, all_news, invalid_sources, streak,
           sources_found, main_exit>>

tvars == <<news, keywords, exclude_keywords, called, filtered, keyword_groups>>

pvars == <<stage, log, pipeline_exit>>

vars == <<cvars, tvars, pvars>>

\* ---------------------------------------------------------------- bounds
NumSources == 2
MaxRuns == 3
MaxThreshold == 3
MaxItems == 2
MaxTitleWords == 1
MaxKeywords == 2
MaxExclude == 1

\* ------------------------------------------------------- program constants
check_interval_hours == 24

\* ------------------------------------------------------------- data model
None == <<>>
Some(x) == <<x>>

Urls == {"u1", "u2"}
Tasks == 1..NumSources
Gaps == {12, 24}

DefaultStatus ==
    [failures |-> 0, last_check |-> None, disabled |-> FALSE, last_disabled_time |-> None]

\* a saved last_disabled_time that datetime.fromisoformat does not accept
Malformed == -1

\* a reference to a dict object: one loaded from the health file, or a task's default
LoadedRef(u) == [kind |-> "loaded", url |-> u, task |-> 0]
FreshRef(t) == [kind |-> "fresh", url |-> "", task |-> t]

Deref(ref) == IF ref.kind = "loaded" THEN entries[ref.url] ELSE fresh[ref.task]

\* the UTC calendar day of a time given in hours
UtcDate(t) == t \div 24

\* feed documents a server can return on day d: how the parse ends (bozo) and the
\* entries, each with or without published_parsed (a day)
Entry(day) == [published_parsed |-> day]
MixedFeed(d) == <<Entry(Some(d - 1)), Entry(Some(d)), Entry(None), Entry(Some(d + 1))>>
Documents(d) ==
    { [bozo |-> "fatal", entries |-> <<>>],
      [bozo |-> "encoding", entries |-> <<>>],
      [bozo |-> "none", entries |-> MixedFeed(d)] }

\* attributes of the name `datetime` as imported: the class datetime.datetime
datetime_attrs == {"now", "fromtimestamp", "fromisoformat", "strptime", "utcnow"}

\* datetime.fromtimestamp(time.mktime(entry.published_parsed), datetime.timezone.utc):
\* the lookup datetime.timezone raises AttributeError on the class
published_utc(entry) ==
    IF "timezone" \in datetime_attrs
    THEN [raised |-> FALSE, date |-> entry.published_parsed[1]]
    ELSE [raised |-> TRUE, date |-> 0]

\* the loop over feed.entries: the entries kept, as news items
RECURSIVE walk_entries(_, _, _)
walk_entries(es, name, current_date) ==
    IF es = <<>> THEN <<>>
    ELSE LET entry == Head(es)
             rest == walk_entries(Tail(es), name, current_date)
         IN IF entry.published_parsed = None THEN rest
            ELSE LET p == published_utc(entry)
                 IN IF p.raised THEN rest
                    ELSE IF p.date # current_date THEN rest
                    ELSE <<[published |-> p.date, source |-> name]>> \o rest

InvalidSource(name, url, reason) == [name |-> name, url |-> url, reason |-> reason]

\* ================================================================ text
\* a text is a sequence of characters
Join(a, b) == a \o <<" ">> \o b

AI == <<"A", "I">>
Sports == <<"S", "p", "o", "r", "t", "s">>
Breakthrough == <<"b", "r", "e", "a", "k", "t", "h", "r", "o", "u", "g", "h">>
Update == <<"u", "p", "d", "a", "t", "e">>

\* str.lower() on the characters in use
LowerChar(c) ==
    CASE c = "A" -> "a"
      [] c = "I" -> "i"
      [] c = "S" -> "s"
      [] OTHER -> c

lower(s) == [i \in 1..Len(s) |-> LowerChar(s[i])]

OccursAt(sub, s, i) ==
    /\ i + Len(sub) - 1 <= Len(s)
    /\ \A j \in 1..Len(sub) : s[i + j - 1] = sub[j]

\* sub in s
contains(sub, s) == \E i \in 1..(Len(s) + 1) : OccursAt(sub, s, i)

\* s.count(sub): the occurrences from the left that do not overlap; the search
\* goes on behind the first occurrence at or after position i
RECURSIVE count_from(_, _, _)
count_from(s, sub, i) ==
    IF Len(sub) = 0 THEN Len(s) + 1
    ELSE LET hits == {j \in i..(Len(s) - Len(sub) + 1) : OccursAt(sub, s, j)}
         IN IF hits = {} THEN 0
            ELSE LET first == CHOOSE j \in hits : \A k \in hits : j <= k
                 IN 1 + count_from(s, sub, first + Len(sub))

count(s, sub) == count_from(s, sub, 1)

\* len(s.split()): the runs of characters that are not white space
split_len(s) ==
    Cardinality({i \in 1..Len(s) : s[i] # " " /\ (i = 1 \/ s[i - 1] = " ")})

\* ---------------------------------------------------- filter_by_keywords
\* the weights of lines 118-120, in tenths, and min_threshold of line 129, in
\* hundredths
title_weight == 7
desc_weight == 2
content_weight == 1
min_threshold == 1

\* news.get(field, '') taken as it is, without lower()
field_text_raw(item, field) == item[field]

\* lines 113-115: news.get(field, '').lower()
field_text(item, field) == lower(item[field])

\* sum(text.count(keyword.lower()) for keyword in keywords)
RECURSIVE count_all(_, _)
count_all(text, kws) ==
    IF kws = <<>> THEN 0
    ELSE count(text, lower(Head(kws))) + count_all(text, Tail(kws))

Max(a, b) == IF a >= b THEN a ELSE b

\* a field's occurrences and words: the score term is occurrences / words
term(item, field, kws) ==
    [occ |-> count_all(field_text(item, field), kws),
     words |-> Max(1, split_len(field_text(item, field)))]

\* lines 118-121 with the title weight given to the content and the content
\* weight to the title
total_score_swapped(item, kws) ==
    LET t == term(item, "title", kws)
        d == term(item, "description", kws)
        c == term(item, "content", kws)
    IN [num |-> content_weight * t.occ * d.words * c.words
                + desc_weight * d.occ * t.words * c.words
                + title_weight * c.occ * t.words * d.words,
        den |-> 10 * t.words * d.words * c.words]

\* lines 118-121: total_score as a fraction num / den
total_score(item, kws) ==
    LET t == term(item, "title", kws)
        d == term(item, "description", kws)
        c == term(item, "content", kws)
    IN [num |-> title_weight * t.occ * d.words * c.words
                + desc_weight * d.occ * t.words * c.words
                + content_weight * c.occ * t.words * d.words,
        den |-> 10 * t.words * d.words * c.words]

\* line 125 looking at the title only
excluded_by_title(item, excl) ==
    /\ excl # None
    /\ \E i \in 1..Len(excl[1]) :
          contains(lower(excl[1][i]), field_text(item, "title"))

\* lines 124-126: an exclude keyword occurs in the title, description or content
excluded(item, excl) ==
    /\ excl # None
    /\ \E i \in 1..Len(excl[1]) :
          \/ contains(lower(excl[1][i]), field_text(item, "title"))
          \/ contains(lower(excl[1][i]), field_text(item, "description"))
          \/ contains(lower(excl[1][i]), field_text(item, "content"))

\* line 130: total_score > min_threshold
above_threshold(score) == 100 * score.num > min_threshold * score.den

\* lines 112-132: the loop over the news list; for each dict whether it is
\* appended to filtered, and the dict with the match_score line 131 sets on it
scan(list, kws, excl) ==
    [i \in 1..Len(list) |->
        LET score == total_score(list[i], kws)
            keep == ~excluded(list[i], excl) /\ above_threshold(score)
        IN [kept |-> keep,
            item |-> IF keep THEN [list[i] EXCEPT !.match_score = Some(score)]
                     ELSE list[i]]]

\* x.get('match_score', 0) of a >= that of b
score_ge(a, b) ==
    LET sa == IF a.match_score = None THEN [num |-> 0, den |-> 1] ELSE a.match_score[1]
        sb == IF b.match_score = None THEN [num |-> 0, den |-> 1] ELSE b.match_score[1]
    IN sa.num * sb.den >= sb.num * sa.den

\* list.sort(key, reverse=True): stable, so an item goes behind those that compare
\* greater or equal
RECURSIVE insert_desc(_, _)
insert_desc(sorted, x) ==
    IF sorted = <<>> THEN <<x>>
    ELSE IF score_ge(Head(sorted), x) THEN <<Head(sorted)>> \o insert_desc(Tail(sorted), x)
    ELSE <<x>> \o sorted

RECURSIVE sort_desc(_)
sort_desc(list) ==
    IF list = <<>> THEN <<>>
    ELSE insert_desc(sort_desc(SubSeq(list, 1, Len(list) - 1)), list[Len(list)])

\* filtered is left in the order of the news list
unsorted(list) == list

\* line 135: filtered.sort(...)
sort_filtered(list) == sort_desc(list)

\* lines 111-136
filter_scored(list, kws, excl) ==
    LET scanned == scan(list, kws, excl)
        appended == SelectSeq(scanned, LAMBDA r : r.kept)
    IN sort_filtered([i \in 1..Len(appended) |-> appended[i].item])

\* lines 111-136 entered also with no keywords
filter_without_keyword_test(list, kws, excl) ==
    IF list = <<>> THEN <<>> ELSE filter_scored(list, kws, excl)

\* lines 106-136: the list filter_by_keywords returns
filter_by_keywords(list, kws, excl) ==
    IF list = <<>> THEN <<>>
    ELSE IF kws = <<>> THEN list
    ELSE filter_scored(list, kws, excl)

\* ------------------------------------------------ group_news_by_keywords
\* keyword in text_lower
keyword_matches_raw(text, kw) == contains(kw, lower(text))

\* line 54: keyword.lower() in text_lower
keyword_matches(text, kw) == contains(lower(kw), lower(text))

\* lines 50-56: the keywords that occur in the text, in the order of the list
extract_keywords_from_text(text, kws) ==
    SelectSeq(kws, LAMBDA kw : keyword_matches(text, kw))

\* line 74: f"{title} {description} {content}"
full_text(item) == Join(Join(item.title, item.description), item.content)

\* lines 77-80: the item appended to the group of each matched keyword; the dict
\* is the sequence of its keys, in the order they were first set, with their lists
RECURSIVE add_to_groups(_, _, _)
add_to_groups(groups, matched, item) ==
    IF matched = <<>> THEN groups
    ELSE LET kw == Head(matched)
             g == IF \E i \in 1..Len(groups) : groups[i].keyword = kw
                  THEN [i \in 1..Len(groups) |->
                           IF groups[i].keyword = kw
                           THEN [groups[i] EXCEPT !.items = Append(@, item)]
                           ELSE groups[i]]
                  ELSE Append(groups, [keyword |-> kw, items |-> <<item>>])
         IN add_to_groups(g, Tail(matched), item)

\* lines 67-81
RECURSIVE group_news_by_keywords(_, _)
group_news_by_keywords(list, kws) ==
    IF list = <<>> THEN <<>>
    ELSE LET before == group_news_by_keywords(SubSeq(list, 1, Len(list) - 1), kws)
             item == list[Len(list)]
         IN add_to_groups(before, extract_keywords_from_text(full_text(item), kws), item)

\* ------------------------------------------------------------------ Init
InitStatuses(threshold) ==
    { [failures |-> threshold, last_check |-> Some(0), disabled |-> TRUE,
       last_disabled_time |-> Some(0)],
      [failures |-> threshold, last_check |-> Some(0), disabled |-> TRUE,
       last_disabled_time |-> None],
      [failures |-> threshold, last_check |-> Some(0), disabled |-> TRUE,
       last_disabled_time |-> Some(Malformed)] }

NewTask(pc) ==
    [pc |-> pc, exit |-> "", source_status |-> None, news_list |-> <<>>,
     invalid_source |-> None, probed |-> FALSE, probe_ok |-> FALSE,
     cache_lookup |-> FALSE, fetched |-> FALSE, after_probe |-> None,
     feed |-> None]

\* health-check.json: where a setting is not read (the threshold without
\* auto_disable, both without enabled) it is left at one value
Configs ==
    { c \in [enabled : BOOLEAN, failure_threshold : 1..MaxThreshold,
             auto_disable : BOOLEAN] :
        /\ (~c.enabled \/ ~c.auto_disable) => (c.failure_threshold = MaxThreshold)
        /\ ~c.enabled => c.auto_disable }

\* rss-sources.json: the first source is enabled; the others share its url, or
\* have their own and are enabled or not
SourceLists ==
    { l \in [Tasks -> [name : Tasks, url : Urls, enabled : BOOLEAN]] :
        /\ \A t \in Tasks : l[t].name = t
        /\ l[1].url = "u1" /\ l[1].enabled
        /\ \A t \in Tasks : l[t].url = "u1" => l[t].enabled }

CollectInit ==
    /\ config \in Configs
    /\ rss_sources \in SourceLists
    /\ \E known \in SUBSET {"u1"} :
          persisted \in [known -> InitStatuses(config.failure_threshold)]
    /\ ~config.enabled => persisted = <<>>
    /\ cache = [u \in Urls |-> None]
    /\ phase = "idle"
    /\ runs = 0
    /\ current_time = 0
    /\ loaded = persisted
    /\ health_status = [u \in DOMAIN persisted |-> LoadedRef(u)]
    /\ entries = persisted
    /\ fresh = [t \in Tasks |-> DefaultStatus]
    /\ task = [t \in Tasks |-> NewTask("none")]
    /\ all_news = <<>>
    /\ invalid_sources = <<>>
    /\ streak = [t \in Tasks |-> 0]
    /\ sources_found \in BOOLEAN
    /\ ~sources_found =>
          /\ config = [enabled |-> FALSE, failure_threshold |-> MaxThreshold,
                       auto_disable |-> TRUE]
          /\ \A t \in Tasks : rss_sources[t].url = "u1"
    /\ main_exit = None

\* no list has been handed to the filter or to the grouping
TextIdle ==
    /\ news = <<>>
    /\ keywords = <<>>
    /\ exclude_keywords = None
    /\ called = "none"
    /\ filtered = <<>>
    /\ keyword_groups = <<>>

\* run.py has not been started
PipelineIdle ==
    /\ stage = 1
    /\ log = <<>>
    /\ pipeline_exit = None

Init == CollectInit /\ TextIdle /\ PipelineIdle

\* ------------------------------------------------- process_rss_source
\* lines 65-67: datetime.fromisoformat raises ValueError on the saved
\* last_disabled_time of a disabled source
raises_at_67(st) ==
    /\ st.disabled
    /\ st.last_disabled_time # None
    /\ st.last_disabled_time[1] = Malformed

\* the comparison of line 68 reversed
in_cool_down_reversed(st, now) ==
    /\ st.disabled
    /\ st.last_disabled_time # None
    /\ now - st.last_disabled_time[1] > check_interval_hours

\* line 68: current_time - last_disabled < check_interval
in_cool_down(st, now) ==
    /\ st.disabled
    /\ st.last_disabled_time # None
    /\ now - st.last_disabled_time[1] < check_interval_hours

\* lines 76-79 without the assignment that clears disabled
reset_keeps_disabled(st) ==
    IF st.disabled THEN [st EXCEPT !.failures = 0] ELSE st

\* lines 65-79 when the source is not skipped: a disabled source is re-enabled
reset_for_recheck(st) ==
    IF st.disabled THEN [st EXCEPT !.disabled = FALSE, !.failures = 0] ELSE st

\* lines 86-89: the HEAD request answered with a status below 400
probe_succeeded(st, now) ==
    [st EXCEPT !.failures = 0, !.last_check = Some(now)]

\* line 101: failures has reached the threshold and auto_disable is set
auto_disabled(st) ==
    st.failures >= config.failure_threshold /\ config.auto_disable

\* lines 94-103: the HEAD request failed
probe_failed(st, now) ==
    LET counted == [st EXCEPT !.failures = @ + 1, !.last_check = Some(now)]
    IN IF auto_disabled(counted)
       THEN [counted EXCEPT !.disabled = TRUE, !.last_disabled_time = Some(now)]
       ELSE counted

\* lines 101 and 111: the return inside the failure handler
returns_at_111(ok, st) == ~ok /\ auto_disabled(st)

\* lines 117-118 left out
never_returns_at_118(st) == FALSE

\* lines 117-118: the return when the status is disabled after the check
returns_at_118(st) == st.disabled

\* lines 136-200: the parsed document turned into the task's result
parse_feed(t, doc) ==
    LET src == rss_sources[t]
    IN IF doc.bozo = "fatal"
       THEN [pc |-> "done", exit |-> "L152", news_list |-> <<>>,
             invalid_source |-> Some(InvalidSource(src.name, src.url, "parse")),
             failed |-> TRUE, feed |-> Some(doc)]
       ELSE LET items == walk_entries(doc.entries, src.name, UtcDate(current_time))
            IN [pc |-> "done", exit |-> "L213", news_list |-> items,
                invalid_source |->
                    IF items = <<>>
                    THEN Some(InvalidSource(src.name, src.url, "0 items"))
                    ELSE None,
                failed |-> FALSE, feed |-> Some(doc)]

\* lines 120-134 up to the first suspension: the enabled test, the cache lookup,
\* and either the parse of the cached document or the network GET
fetch_stage(t) ==
    LET src == rss_sources[t]
    IN IF src.url = "" \/ ~src.enabled
       THEN [pc |-> "done", exit |-> "L121", news_list |-> <<>>,
             invalid_source |-> None, failed |-> FALSE, feed |-> None,
             cache_lookup |-> FALSE, fetched |-> FALSE]
       ELSE IF cache[src.url] # None
       THEN parse_feed(t, cache[src.url][1])
                @@ [cache_lookup |-> TRUE, fetched |-> FALSE]
       ELSE [pc |-> "fetching", exit |-> "", news_list |-> <<>>,
             invalid_source |-> None, failed |-> FALSE, feed |-> None,
             cache_lookup |-> TRUE, fetched |-> TRUE]

\* lines 145 and 205: source_status['failures'] += 1
count_failure(st, failed) ==
    IF failed THEN [st EXCEPT !.failures = @ + 1] ELSE st

\* a write through a reference to a dict object
Store(ref, st) ==
    /\ entries' = IF ref.kind = "loaded" THEN [entries EXCEPT ![ref.url] = st]
                  ELSE entries
    /\ fresh' = IF ref.kind = "fresh" THEN [fresh EXCEPT ![ref.task] = st]
                ELSE fresh

\* health_status[url] = source_status
Assign(hs, url, ref) ==
    [u \in DOMAIN hs \cup {url} |-> IF u = url THEN ref ELSE hs[u]]

AllBegun == \A s \in Tasks : task[s].pc # "new"

\* no coroutine has ended with an exception, which gather hands to its awaiter
\* before any request of another coroutine completes
NoTaskRaised == \A s \in Tasks : task[s].pc # "raised"

Outcome(t, o) ==
    [task[t] EXCEPT !.pc = o.pc, !.exit = o.exit, !.news_list = o.news_list,
                    !.invalid_source = o.invalid_source, !.feed = o.feed,
                    !.cache_lookup = o.cache_lookup, !.fetched = o.fetched]

\* lines 41-85: the coroutine runs from its start to its first suspension
Begin(t) ==
    /\ phase = "gather"
    /\ task[t].pc = "new"
    /\ \A s \in Tasks : s < t => task[s].pc # "new"
    /\ LET url == rss_sources[t].url
       IN IF ~config.enabled
          THEN /\ task' = [task EXCEPT ![t] = Outcome(t, fetch_stage(t))]
               /\ UNCHANGED <<entries, fresh>>
          ELSE LET ref == IF url \in DOMAIN health_status
                          THEN health_status[url] ELSE FreshRef(t)
                   st == Deref(ref)
               IN IF raises_at_67(st)
                  THEN /\ task' = [task EXCEPT ![t].pc = "raised", ![t].exit = "L67",
                                               ![t].source_status = Some(ref)]
                       /\ UNCHANGED <<entries, fresh>>
                  ELSE IF in_cool_down(st, current_time)
                  THEN /\ task' = [task EXCEPT ![t].pc = "done", ![t].exit = "L70",
                                               ![t].source_status = Some(ref)]
                       /\ UNCHANGED <<entries, fresh>>
                  ELSE /\ task' = [task EXCEPT ![t].pc = "probing",
                                               ![t].probed = TRUE,
                                               ![t].source_status = Some(ref)]
                       /\ Store(ref, reset_for_recheck(st))
    /\ UNCHANGED <<config, rss_sources, persisted, cache, phase, runs, current_time,
                   loaded, health_status, all_news, invalid_sources, streak, sources_found, main_exit, tvars, pvars>>

\* lines 86-134: the HEAD request completes, with a status below 400 or not
ProbeDone(t, ok) ==
    /\ phase = "gather"
    /\ AllBegun
    /\ NoTaskRaised
    /\ task[t].pc = "probing"
    /\ LET src == rss_sources[t]
           ref == task[t].source_status[1]
           st == IF ok THEN probe_succeeded(Deref(ref), current_time)
                 ELSE probe_failed(Deref(ref), current_time)
       IN IF returns_at_111(ok, st)
          THEN /\ Store(ref, st)
               /\ task' = [task EXCEPT ![t].pc = "done", ![t].exit = "L111",
                               ![t].probe_ok = ok,
                               ![t].after_probe = Some(st.disabled),
                               ![t].invalid_source =
                                   Some(InvalidSource(src.name, src.url, "health"))]
               /\ UNCHANGED health_status
          ELSE /\ health_status' = Assign(health_status, src.url, ref)
               /\ IF returns_at_118(st)
                  THEN /\ Store(ref, st)
                       /\ task' = [task EXCEPT ![t].pc = "done", ![t].exit = "L118",
                                       ![t].probe_ok = ok,
                                       ![t].after_probe = Some(st.disabled)]
                  ELSE LET o == fetch_stage(t)
                       IN /\ Store(ref, count_failure(st, o.failed))
                          /\ task' = [task EXCEPT ![t] =
                                 [Outcome(t, o) EXCEPT !.probe_ok = ok,
                                      !.after_probe = Some(st.disabled)]]
    /\ UNCHANGED <<config, rss_sources, persisted, cache, phase, runs, current_time,
                   loaded, all_news, invalid_sources, streak, sources_found, main_exit, tvars, pvars>>

\* lines 131-134 and 136-213: the GET returns a document, which is cached and parsed
FetchDone(t, doc) ==
    /\ phase = "gather"
    /\ AllBegun
    /\ NoTaskRaised
    /\ task[t].pc = "fetching"
    /\ LET o == parse_feed(t, doc) @@ [cache_lookup |-> TRUE, fetched |-> TRUE]
       IN /\ cache' = [cache EXCEPT ![rss_sources[t].url] = Some(doc)]
          /\ task' = [task EXCEPT ![t] = Outcome(t, o)]
          /\ IF config.enabled
             THEN LET ref == task[t].source_status[1]
                  IN Store(ref, count_failure(Deref(ref), o.failed))
             ELSE UNCHANGED <<entries, fresh>>
    /\ UNCHANGED <<config, rss_sources, persisted, phase, runs, current_time,
                   loaded, health_status, all_news, invalid_sources, streak, sources_found, main_exit, tvars, pvars>>

\* lines 27-29 and 202-211: the GET raises, and the handler records the source
FetchFailed(t) ==
    /\ phase = "gather"
    /\ AllBegun
    /\ NoTaskRaised
    /\ task[t].pc = "fetching"
    /\ LET src == rss_sources[t]
       IN task' = [task EXCEPT ![t].pc = "done", ![t].exit = "L213",
                       ![t].invalid_source =
                           Some(InvalidSource(src.name, src.url, "error"))]
    /\ IF config.enabled /\ task[t].source_status # None
       THEN LET ref == task[t].source_status[1]
            IN Store(ref, count_failure(Deref(ref), TRUE))
       ELSE UNCHANGED <<entries, fresh>>
    /\ UNCHANGED <<config, rss_sources, persisted, cache, phase, runs, current_time,
                   loaded, health_status, all_news, invalid_sources, streak, sources_found, main_exit, tvars, pvars>>

\* --------------------------------------------------- collect_rss_feeds
\* lines 251-254: all_news and invalid_sources, in the order of the tasks
RECURSIVE gather_news(_)
gather_news(n) ==
    IF n = 0 THEN <<>> ELSE gather_news(n - 1) \o task[n].news_list

RECURSIVE gather_invalid(_)
gather_invalid(n) ==
    IF n = 0 THEN <<>> ELSE gather_invalid(n - 1) \o task[n].invalid_source

\* lines 255-258: the status of a source that returned an invalid_source is
\* written to the map under the url of that record
RECURSIVE gather_health(_)
gather_health(n) ==
    IF n = 0 THEN health_status
    ELSE LET hs == gather_health(n - 1)
             r == task[n]
         IN IF r.source_status # None /\ config.enabled
               /\ r.invalid_source # None /\ r.invalid_source[1].url # ""
            THEN Assign(hs, r.invalid_source[1].url, r.source_status[1])
            ELSE hs

\* one more run in a row whose probe failed, counted from a clean status
next_streak(t) ==
    LET u == rss_sources[t].url
        clean == u \notin DOMAIN loaded
                 \/ (loaded[u].failures = 0 /\ ~loaded[u].disabled)
    IN IF ~(task[t].probed /\ ~task[t].probe_ok) THEN 0
       ELSE IF streak[t] > 0 THEN streak[t] + 1
       ELSE IF clean THEN 1 ELSE 0

\* collect_rss.main, lines 276-294: the exit code and what became of
\* output/raw_news.json, given whether collect_rss_feeds raised, the news it
\* returned and whether save_json_data can write the file
main(raised, news_data, writable) ==
    IF raised THEN [code |-> 1, raw_news |-> "untouched"]
    ELSE IF news_data # <<>>
    THEN IF writable THEN [code |-> 0, raw_news |-> "news"]
         ELSE [code |-> 1, raw_news |-> "failed"]
    ELSE [code |-> 0, raw_news |-> IF writable THEN "empty" ELSE "failed"]

\* lines 218-227: load_config returns {} for the source list, and
\* collect_rss_feeds returns [] before it creates a coroutine
RunNoSources ==
    /\ phase = "idle"
    /\ ~sources_found
    /\ runs < MaxRuns
    /\ runs' = runs + 1
    /\ \E writable \in BOOLEAN : main_exit' = Some(main(FALSE, <<>>, writable))
    /\ UNCHANGED <<config, rss_sources, persisted, cache, phase, current_time, loaded,
                   health_status, entries, fresh, task, all_news, invalid_sources,
                   streak, sources_found, tvars, pvars>>

\* line 248 and lines 278-281: a coroutine raised, gather raises in
\* collect_rss_feeds, asyncio.run cancels the coroutines still waiting, and main
\* exits; nothing is aggregated or saved
GatherRaises ==
    /\ phase = "gather"
    /\ AllBegun
    /\ ~NoTaskRaised
    /\ task' = [t \in Tasks |->
                  IF task[t].pc \in {"done", "raised"} THEN task[t]
                  ELSE [task[t] EXCEPT !.pc = "cancelled"]]
    /\ streak' = [t \in Tasks |-> 0]
    /\ phase' = "idle"
    /\ main_exit' = Some(main(TRUE, <<>>, TRUE))
    /\ UNCHANGED <<config, rss_sources, persisted, cache, runs, current_time, loaded,
                   health_status, entries, fresh, all_news, invalid_sources,
                   sources_found, tvars, pvars>>

\* lines 218-245: the configuration and the health file are read, current_time is
\* taken and one coroutine per source is created
StartRun ==
    /\ phase = "idle"
    /\ sources_found
    /\ runs < MaxRuns
    /\ \E gap \in Gaps : current_time' = current_time + gap
    /\ runs' = runs + 1
    /\ phase' = "gather"
    /\ loaded' = persisted
    /\ entries' = persisted
    /\ health_status' = [u \in DOMAIN persisted |-> LoadedRef(u)]
    /\ fresh' = [t \in Tasks |-> DefaultStatus]
    /\ task' = [t \in Tasks |-> NewTask("new")]
    /\ all_news' = <<>>
    /\ invalid_sources' = <<>>
    /\ main_exit' = None
    /\ UNCHANGED <<config, rss_sources, persisted, cache, streak, sources_found, tvars, pvars>>

\* lines 248-269: gather has returned; the results are aggregated and saved
Aggregate ==
    /\ phase = "gather"
    /\ \A t \in Tasks : task[t].pc = "done"
    /\ all_news' = gather_news(NumSources)
    /\ invalid_sources' = gather_invalid(NumSources)
    /\ health_status' = gather_health(NumSources)
    /\ persisted' = IF config.enabled
                    THEN [u \in DOMAIN health_status' |-> Deref(health_status'[u])]
                    ELSE persisted
    /\ streak' = [t \in Tasks |-> next_streak(t)]
    /\ phase' = "idle"
    /\ \E writable \in BOOLEAN : main_exit' = Some(main(FALSE, all_news', writable))
    /\ UNCHANGED <<config, rss_sources, cache, runs, current_time, loaded, entries,
                   fresh, task, sources_found, tvars, pvars>>

Next ==
    \/ StartRun
    \/ \E t \in Tasks : Begin(t)
    \/ \E t \in Tasks, ok \in BOOLEAN : ProbeDone(t, ok)
    \/ \E t \in Tasks : \E doc \in Documents(UtcDate(current_time)) : FetchDone(t, doc)
    \/ \E t \in Tasks : FetchFailed(t)
    \/ Aggregate
    \/ GatherRaises
    \/ RunNoSources

Spec == Init /\ [][Next]_vars

\* ------------------------------------------- the filter and the grouping
\* the collection does not run while a list is filtered or grouped
CollectIdle ==
    /\ CollectInit
    /\ ~config.enabled
    /\ \A t \in Tasks : rss_sources[t].url = "u1"
    /\ sources_found

\* texts of up to n words of a vocabulary
RECURSIVE Phrases(_, _)
Phrases(vocabulary, n) ==
    IF n = 0 THEN {<<>>}
    ELSE LET shorter == Phrases(vocabulary, n - 1)
         IN shorter \cup vocabulary
            \cup {Join(p, w) : p \in shorter \ {<<>>}, w \in vocabulary}

\* a title of n words in which the keyword occurs once
RECURSIVE Padded(_, _)
Padded(word, n) == IF n <= 1 THEN word ELSE Padded(word, n - 1) \o <<" ", "x">>

\* the number of words from which one occurrence in the title no longer lifts the
\* score above min_threshold
LongTitleWords == (title_weight * 100) \div (10 * min_threshold)

Titles ==
    Phrases({AI, Sports}, MaxTitleWords)
    \cup {Join(AI, Breakthrough), Join(Sports, Update), Padded(AI, LongTitleWords)}
Descriptions == {<<>>, AI, Sports}
Contents == {<<>>, AI}

\* the long title comes with no description and no content
Items ==
    { item \in [title : Titles, description : Descriptions, content : Contents,
                match_score : {None}] :
        Len(item.title) > Len(Join(Sports, Update))
            => item.description = <<>> /\ item.content = <<>> }

SeqsUpTo(S, n) == UNION {[1..m -> S] : m \in 0..n}

IncludeLists == SeqsUpTo({AI, lower(Sports), Join(AI, Sports)}, MaxKeywords)
ExcludeLists == {None} \cup {Some(l) : l \in SeqsUpTo({lower(AI), Sports}, MaxExclude)}

FilterInit ==
    /\ CollectIdle
    /\ news \in SeqsUpTo(Items, MaxItems)
    /\ keywords \in IncludeLists
    /\ exclude_keywords \in ExcludeLists
    /\ called = "none"
    /\ filtered = <<>>
    /\ keyword_groups = <<>>
    /\ PipelineIdle

GroupInit ==
    /\ CollectIdle
    /\ news \in SeqsUpTo(Items, MaxItems)
    /\ keywords \in IncludeLists
    /\ exclude_keywords = None
    /\ called = "none"
    /\ filtered = <<>>
    /\ keyword_groups = <<>>
    /\ PipelineIdle

\* utils.filter_by_keywords(news_list, keywords, exclude_keywords): the list it
\* returns, and the match_score it sets on the dicts of the list it was given
CallFilter ==
    /\ called = "none"
    /\ called' = "filter"
    /\ filtered' = filter_by_keywords(news, keywords, exclude_keywords)
    /\ news' = IF news = <<>> \/ keywords = <<>> THEN news
               ELSE LET scanned == scan(news, keywords, exclude_keywords)
                    IN [i \in 1..Len(news) |-> scanned[i].item]
    /\ UNCHANGED <<keywords, exclude_keywords, keyword_groups, cvars, pvars>>

\* generate_github_pages.group_news_by_keywords(news_list, keywords)
CallGroup ==
    /\ called = "none"
    /\ called' = "group"
    /\ keyword_groups' = group_news_by_keywords(news, keywords)
    /\ UNCHANGED <<news, keywords, exclude_keywords, filtered, cvars, pvars>>

FilterSpec == FilterInit /\ [][CallFilter]_vars

GroupSpec == GroupInit /\ [][CallGroup]_vars

\* ------------------------------------------------------------- run.py
\* the commands of main, lines 32-57, in the order of the calls: the Python
\* version, the dependencies, then the stages collect, filter, render and notify
Commands == <<"version", "install", "collect", "filter", "render", "notify">>

\* the return codes of a command and whether it wrote to its standard output
ReturnCodes == {0, 1, 2}
Outputs == {"", "text"}

\* lines 16-25: check=True makes a return code other than 0 raise
\* CalledProcessError, which run_command reports; it prints a standard output
\* that is not empty, and returns True
run_command(returncode, stdout) ==
    IF returncode # 0 THEN [ok |-> FALSE, printed |-> "error"]
    ELSE [ok |-> TRUE, printed |-> IF stdout # "" THEN "stdout" ELSE "nothing"]

\* every call of main tests the result of run_command
exits_on_every_failure(command) == TRUE

\* lines 32-57: main tests the result of run_command, and exits with 1 on
\* False, for every command but the notification of line 57
exits_on_failure(command) == command # "notify"

PipelineInit ==
    /\ CollectIdle
    /\ TextIdle
    /\ PipelineIdle

\* one call of run_command in main, and the sys.exit(1) that follows a failure
RunCommand(returncode, stdout) ==
    /\ pipeline_exit = None
    /\ stage \in 1..Len(Commands)
    /\ LET command == Commands[stage]
           result == run_command(returncode, stdout)
       IN /\ log' = Append(log, [command |-> command, returncode |-> returncode,
                                  printed |-> result.printed])
          /\ IF ~result.ok /\ exits_on_failure(command)
             THEN /\ pipeline_exit' = Some(1)
                  /\ UNCHANGED stage
             ELSE /\ stage' = stage + 1
                  /\ UNCHANGED pipeline_exit
    /\ UNCHANGED <<cvars, tvars>>

\* lines 59-68: main prints the summary and returns
Finish ==
    /\ pipeline_exit = None
    /\ stage = Len(Commands) + 1
    /\ pipeline_exit' = Some(0)
    /\ UNCHANGED <<stage, log, cvars, tvars>>

PipelineNext ==
    \/ \E returncode \in ReturnCodes, stdout \in Outputs : RunCommand(returncode, stdout)
    \/ Finish

PipelineSpec == PipelineInit /\ [][PipelineNext]_vars


\* ============================================================== claims
\* the status of url u as the run sees it: the dict the map holds while the
\* tasks run, the saved file once the run has ended
StatusNow(u) ==
    IF phase = "gather" THEN Deref(health_status[u]) ELSE persisted[u]

\* the status loaded for task t says disabled, and the cool-down has not elapsed
CoolingDown(t) ==
    LET u == rss_sources[t].url
    IN /\ config.enabled
       /\ u \in DOMAIN loaded
       /\ loaded[u].disabled
       /\ loaded[u].last_disabled_time # None
       /\ loaded[u].last_disabled_time[1] # Malformed
       /\ current_time - loaded[u].last_disabled_time[1] < check_interval_hours

\* C1: with health checking enabled, a source loaded as disabled whose cool-down
\* has not elapsed is not probed and not fetched, returns no items and no
\* invalid-source record, and its failures, disabled and last_disabled_time stay
\* as loaded.
C1_CoolDownSkips ==
    \A t \in Tasks :
        CoolingDown(t) =>
            LET u == rss_sources[t].url
            IN /\ ~task[t].probed
               /\ ~task[t].cache_lookup
               /\ ~task[t].fetched
               /\ task[t].news_list = <<>>
               /\ task[t].invalid_source = None
               /\ u \in DOMAIN health_status
               /\ StatusNow(u).failures = loaded[u].failures
               /\ StatusNow(u).disabled = loaded[u].disabled
               /\ StatusNow(u).last_disabled_time = loaded[u].last_disabled_time

\* a run has ended in which one source was skipped in its cool-down while another
\* source was probed
C1_Witness ==
    /\ phase = "idle"
    /\ \E t \in Tasks : CoolingDown(t) /\ task[t].pc = "done" /\ task[t].exit = "L70"
    /\ \E t \in Tasks : task[t].probed

\* the invalid-source records of the last run that name source t
RecordsOf(t) ==
    {i \in 1..Len(invalid_sources) : invalid_sources[i].name = rss_sources[t].name}

UrlIsShared(t) ==
    \E s \in Tasks : s # t /\ rss_sources[s].url = rss_sources[t].url

\* C2: starting from failures=0 and disabled=false, after failure_threshold runs
\* in a row whose probe failed, with auto_disable, the saved status is disabled,
\* and the run in which the source disables itself emits exactly one record for
\* it. Stated for a source that shares its url with no other.
C2_DisabledAfterThreshold ==
    \A t \in Tasks :
        ( /\ config.enabled /\ config.auto_disable
          /\ phase = "idle"
          /\ ~UrlIsShared(t) )
        => /\ streak[t] = config.failure_threshold
                => /\ rss_sources[t].url \in DOMAIN persisted
                   /\ persisted[rss_sources[t].url].disabled
           /\ task[t].exit = "L111" => Cardinality(RecordsOf(t)) = 1

\* C3 as stated: a failed probe, or a status that is disabled when the probe
\* step ends, means no cache lookup, no GET and no items for that source.
C3_AnyProbeFailureSkipsFetch ==
    \A t \in Tasks :
        ( /\ config.enabled
          /\ task[t].after_probe # None
          /\ (~task[t].probe_ok \/ task[t].after_probe = Some(TRUE)) )
        => /\ ~task[t].cache_lookup
           /\ ~task[t].fetched
           /\ task[t].news_list = <<>>

\* C3 as amended: a status that is disabled when the probe step ends means no
\* cache lookup, no GET and no items for that source in that run; a failed probe
\* that leaves the source enabled does not stop the fetch.
C3_DisabledSkipsFetch ==
    \A t \in Tasks :
        ( /\ config.enabled
          /\ task[t].after_probe = Some(TRUE) )
        => /\ ~task[t].cache_lookup
           /\ ~task[t].fetched
           /\ task[t].news_list = <<>>

\* a source ended its probe step disabled and returned, while in the same run a
\* source whose probe failed below the threshold went on to the feed
C3_Witness ==
    /\ config.enabled
    /\ \E t \in Tasks : task[t].after_probe = Some(TRUE) /\ task[t].pc = "done"
    /\ \E t \in Tasks :
          /\ task[t].after_probe = Some(FALSE)
          /\ ~task[t].probe_ok
          /\ task[t].cache_lookup

\* the news item the loop builds from an entry
ItemOf(t, day) == [published |-> day, source |-> rss_sources[t].name]

InNews(t, day) ==
    \E i \in 1..Len(task[t].news_list) : task[t].news_list[i] = ItemOf(t, day)

\* C4: of the entries of a feed that was fetched and parsed, those dated
\* yesterday or tomorrow (UTC) are not in the returned list and those dated today
\* (UTC) are.
C4_TodayIncluded ==
    \A t \in Tasks :
        ( /\ phase = "gather"
          /\ task[t].pc = "done"
          /\ task[t].feed # None
          /\ task[t].feed[1].bozo # "fatal" )
        => LET today == UtcDate(current_time)
               es == task[t].feed[1].entries
           IN \A i \in 1..Len(es) :
                 /\ es[i].published_parsed = Some(today) => InNews(t, today)
                 /\ es[i].published_parsed = Some(today - 1) => ~InNews(t, today - 1)
                 /\ es[i].published_parsed = Some(today + 1) => ~InNews(t, today + 1)

\* C10: after a run with health checking enabled, the saved entry of every
\* source's url has a last_disabled_time if it is disabled.
C10_DisabledHasTime ==
    ( /\ config.enabled
      /\ phase = "idle"
      /\ runs >= 1 )
    => \A t \in Tasks :
          LET u == rss_sources[t].url
          IN u \in DOMAIN persisted =>
                (persisted[u].disabled
                    => persisted[u].last_disabled_time # None)

\* a run has ended that loaded an entry disabled with no last_disabled_time
C10_Witness ==
    /\ config.enabled
    /\ phase = "idle"
    /\ runs >= 1
    /\ \E t \in Tasks :
          LET u == rss_sources[t].url
          IN /\ u \in DOMAIN loaded
             /\ loaded[u].disabled
             /\ loaded[u].last_disabled_time = None
             /\ u \in DOMAIN persisted

\* ---- claims about filter_by_keywords and group_news_by_keywords
Fields == {"title", "description", "content"}

\* keyword k occurs in the text, letter case aside
OccursIn(k, text) == contains(lower(k), lower(text))

OccursInAField(k, item) == \E f \in Fields : OccursIn(k, item[f])

Returned(item) == \E j \in 1..Len(filtered) : filtered[j] = item

\* C5: filter_by_keywords returns the empty list for an empty list whatever the
\* keywords, and for a non-empty list with no include keywords it returns the
\* same items in the same order, none of them with a match_score, also when
\* exclude keywords are given.
C5_EmptyInputs ==
    called = "filter" =>
        /\ news = <<>> => filtered = <<>>
        /\ (news # <<>> /\ keywords = <<>>) =>
              /\ filtered = news
              /\ \A i \in 1..Len(filtered) : filtered[i].match_score = None

\* the filter was called with no include keyword on two items, one of which holds
\* an exclude keyword, and gave both back
C5_Witness ==
    /\ called = "filter"
    /\ keywords = <<>>
    /\ Len(news) = MaxItems
    /\ exclude_keywords # None
    /\ \E i \in 1..Len(news) :
          \E e \in 1..Len(exclude_keywords[1]) :
              OccursInAField(exclude_keywords[1][e], news[i])
    /\ filtered = news

\* C6: with include keywords given, no returned item holds an exclude keyword
\* (letter case aside) in its title, description or content, whatever its score.
C6_ExcludeOutranksInclude ==
    (called = "filter" /\ keywords # <<>> /\ exclude_keywords # None) =>
        \A j \in 1..Len(filtered) :
            \A e \in 1..Len(exclude_keywords[1]) :
                ~OccursInAField(exclude_keywords[1][e], filtered[j])

\* an item in which two include keywords occur, and an exclude keyword in the
\* description only, was left out while another item was returned
C6_Witness ==
    /\ called = "filter"
    /\ exclude_keywords # None
    /\ Len(keywords) = 2
    /\ keywords[1] # keywords[2]
    /\ filtered # <<>>
    /\ \E i \in 1..Len(news) :
          /\ \A k \in 1..Len(keywords) : OccursInAField(keywords[k], news[i])
          /\ \E e \in 1..Len(exclude_keywords[1]) :
                /\ OccursIn(exclude_keywords[1][e], news[i].description)
                /\ ~OccursIn(exclude_keywords[1][e], news[i].title)
          /\ ~Returned(news[i])

NoExclude == exclude_keywords = None \/ exclude_keywords = Some(<<>>)

OccursInTitle(item) == \E k \in 1..Len(keywords) : OccursIn(keywords[k], item.title)

ReturnedWithScore(item) ==
    /\ Returned(item)
    /\ item.match_score # None
    /\ item.match_score[1].num > 0

\* no item comes back in which no include keyword occurs in any field
OnlyMatchedReturned ==
    \A j \in 1..Len(filtered) :
        \E k \in 1..Len(keywords) : OccursInAField(keywords[k], filtered[j])

\* C7 as stated: with include keywords and no exclude keywords, every item whose
\* title holds an include keyword (letter case aside) is returned with a
\* match_score above 0, and no item is returned in which no include keyword
\* occurs.
C7_TitleKeywordReturned ==
    (called = "filter" /\ keywords # <<>> /\ NoExclude) =>
        /\ \A i \in 1..Len(news) :
              OccursInTitle(news[i]) => ReturnedWithScore(news[i])
        /\ OnlyMatchedReturned

\* C7 as amended: with include keywords and no exclude keywords, every item whose
\* title holds an include keyword (letter case aside) and has fewer words than
\* LongTitleWords is returned with a match_score above 0, and no item is
\* returned in which no include keyword occurs.
C7_ShortTitleKeywordReturned ==
    (called = "filter" /\ keywords # <<>> /\ NoExclude) =>
        /\ \A i \in 1..Len(news) :
              (OccursInTitle(news[i]) /\ split_len(news[i].title) < LongTitleWords)
                  => ReturnedWithScore(news[i])
        /\ OnlyMatchedReturned

\* the example: the titles "AI breakthrough" and "Sports update" filtered with the
\* keyword "AI" give the first item only, with a match_score of 0.35
C7_Witness ==
    /\ called = "filter"
    /\ keywords = <<AI>>
    /\ exclude_keywords = None
    /\ Len(news) = 2
    /\ news[1].title = Join(AI, Breakthrough)
    /\ news[2].title = Join(Sports, Update)
    /\ \A i \in 1..2 : news[i].description = <<>> /\ news[i].content = <<>>
    /\ filtered = <<news[1]>>
    /\ news[1].match_score = Some([num |-> 7, den |-> 20])

\* 0.7 * titleTerm + 0.2 * descriptionTerm + 0.1 * contentTerm of the item, each
\* term the occurrences of the keywords in the field over its number of words
WeightedScore(item) ==
    LET t == term(item, "title", keywords)
        d == term(item, "description", keywords)
        c == term(item, "content", keywords)
    IN [num |-> 7 * t.occ * d.words * c.words
                + 2 * d.occ * t.words * c.words
                + 1 * c.occ * t.words * d.words,
        den |-> 10 * t.words * d.words * c.words]

\* C8: with include keywords given, the returned list is in the order of
\* non-increasing match_score, and every returned item has a match_score equal
\* to 0.7 * titleTerm + 0.2 * descriptionTerm + 0.1 * contentTerm of that item.
C8_SortedByWeightedScore ==
    (called = "filter" /\ keywords # <<>>) =>
        /\ \A j \in 1..Len(filtered) :
              /\ filtered[j].match_score # None
              /\ filtered[j].match_score[1].num * WeightedScore(filtered[j]).den
                    = WeightedScore(filtered[j]).num * filtered[j].match_score[1].den
        /\ \A j \in 1..(Len(filtered) - 1) :
              filtered[j].match_score[1].num * filtered[j + 1].match_score[1].den
                  >= filtered[j + 1].match_score[1].num * filtered[j].match_score[1].den

\* two items were returned in the reverse of the order they were given in, the
\* second of the list with the higher score
C8_Witness ==
    /\ called = "filter"
    /\ keywords # <<>>
    /\ Len(news) = 2
    /\ Len(filtered) = 2
    /\ filtered[1] = news[2]
    /\ filtered[2] = news[1]
    /\ filtered[1].match_score[1].num * filtered[2].match_score[1].den
          > filtered[2].match_score[1].num * filtered[1].match_score[1].den
    /\ filtered[1].description # <<>>

InGroup(k, item) ==
    \E g \in 1..Len(keyword_groups) :
        /\ keyword_groups[g].keyword = k
        /\ \E j \in 1..Len(keyword_groups[g].items) : keyword_groups[g].items[j] = item

\* C9 as stated: an item is in the group of keyword k if and only if k occurs
\* (letter case aside) in the item's title, description or content.
C9_GroupedIffInAField ==
    called = "group" =>
        \A k \in 1..Len(keywords) :
            \A i \in 1..Len(news) :
                InGroup(keywords[k], news[i]) <=> OccursInAField(keywords[k], news[i])

\* C9 as amended: an item is in the group of keyword k if and only if k occurs
\* (letter case aside) in the text made of the item's title, description and
\* content with one space between them.
C9_GroupedIffInJoinedText ==
    called = "group" =>
        \A k \in 1..Len(keywords) :
            \A i \in 1..Len(news) :
                InGroup(keywords[k], news[i])
                    <=> OccursIn(keywords[k],
                                 news[i].title \o <<" ">> \o news[i].description
                                     \o <<" ">> \o news[i].content)

\* an item in which two keywords occur is in both groups, and an item in which
\* none occurs is in no group
C9_Witness ==
    /\ called = "group"
    /\ Len(keywords) = 2
    /\ keywords[1] # keywords[2]
    /\ Len(keyword_groups) = 2
    /\ \E i \in 1..Len(news) :
          /\ \A k \in 1..2 : OccursInAField(keywords[k], news[i])
          /\ \A k \in 1..2 : InGroup(keywords[k], news[i])
    /\ \E i \in 1..Len(news) :
          /\ \A k \in 1..2 : ~OccursInAField(keywords[k], news[i])
          /\ \A k \in 1..2 : ~InGroup(keywords[k], news[i])

\* ---- claims about the run as a whole
\* the status dict task t holds, as it is now
StatusOf(t) == Deref(task[t].source_status[1])

\* the HEAD request of task t has completed
Probed(t) == task[t].probed /\ task[t].after_probe # None

\* C11: while the tasks of a run execute under gather, no task writes the shared
\* health map or one of its entries; they are as loaded until the aggregation.
C11_NoWriteWhileGathering ==
    phase = "gather" =>
        /\ entries = loaded
        /\ health_status = [u \in DOMAIN loaded |-> LoadedRef(u)]

\* source t failed in the last run: its probe failed, its coroutine raised on the
\* saved entry, or its fetch ended in an error, a parse error or no items
SourceFailed(t) ==
    \/ task[t].pc = "raised"
    \/ Probed(t) /\ ~task[t].probe_ok
    \/ task[t].exit \in {"L152", "L213"} /\ task[t].news_list = <<>>

\* C13: after a run, every source that failed has an invalid-source record, and
\* every source's coroutine has run to its end and its items are in the news the
\* run returns.
C13_FailureIsRecordedAndIsolated ==
    (phase = "idle" /\ runs >= 1 /\ sources_found) =>
        /\ \A t \in Tasks : SourceFailed(t) => RecordsOf(t) # {}
        /\ \A t \in Tasks : task[t].pc = "done"
        /\ all_news = gather_news(NumSources)

\* C14: collect_rss.main exits with 0 exactly when the run succeeded: the source
\* list was found, collect_rss_feeds did not raise, and output/raw_news.json was
\* written (with the news, or empty when there is none).
C14_ExitCodeTellsSuccess ==
    (phase = "idle" /\ main_exit # None) =>
        ( main_exit[1].code = 0
            <=> ( /\ sources_found
                  /\ NoTaskRaised
                  /\ main_exit[1].raw_news \in {"news", "empty"} ) )

\* the status source t started the run with
StartStatus(t) ==
    IF rss_sources[t].url \in DOMAIN loaded THEN loaded[rss_sources[t].url]
    ELSE DefaultStatus

\* C15: with health checking enabled, failures is 0 at the end of every run in
\* which the source's probe succeeded, and a disabled source that is probed again
\* after its cool-down has failures 0 and disabled cleared while it is probed.
\* Stated for a source that shares its url with no other.
C15_FailuresZeroAfterSuccess ==
    \A t \in Tasks :
        (config.enabled /\ ~UrlIsShared(t)) =>
            /\ (phase = "idle" /\ Probed(t) /\ task[t].probe_ok /\ task[t].pc = "done")
                  => /\ rss_sources[t].url \in DOMAIN persisted
                     /\ persisted[rss_sources[t].url].failures = 0
            /\ (phase = "gather" /\ task[t].pc = "probing" /\ StartStatus(t).disabled)
                  => /\ StatusOf(t).failures = 0
                     /\ ~StatusOf(t).disabled

\* C16: with health checking enabled, after a run the saved map has, for every
\* source that was probed in it, an entry equal to the source's final status.
C16_SavedEqualsFinal ==
    (config.enabled /\ phase = "idle" /\ runs >= 1) =>
        \A t \in Tasks :
            (Probed(t) /\ task[t].pc = "done") =>
                /\ rss_sources[t].url \in DOMAIN persisted
                /\ persisted[rss_sources[t].url] = StatusOf(t)

\* C17: within one run, failures grows by at most 1 over its value at the start
\* of the run. Stated for a source that shares its url with no other.
C17_AtMostOneFailurePerRun ==
    \A t \in Tasks :
        (config.enabled /\ ~UrlIsShared(t) /\ task[t].source_status # None) =>
            StatusOf(t).failures <= StartStatus(t).failures + 1

\* C18: for a source configured with enabled=false, a run makes no probe and no
\* fetch, returns no items and no invalid-source record, and leaves the health
\* entry of its url as it was loaded.
C18_DisabledSourceUntouched ==
    \A t \in Tasks :
        (~rss_sources[t].enabled /\ phase = "gather") =>
            LET u == rss_sources[t].url
            IN /\ ~task[t].probed
               /\ ~task[t].cache_lookup
               /\ ~task[t].fetched
               /\ task[t].news_list = <<>>
               /\ task[t].invalid_source = None
               /\ IF u \in DOMAIN loaded
                  THEN u \in DOMAIN health_status /\ StatusNow(u) = loaded[u]
                  ELSE u \notin DOMAIN health_status

\* ---- claims about run.py
Stages == {"collect", "filter", "render", "notify"}

\* C12: run.py runs the stages in the order collect, filter, render, notify; a
\* stage starts only after every stage before it has succeeded; a failure of
\* collect, filter or render ends the pipeline with an exit code other than 0
\* before a later stage runs; a failure of notify leaves the exit code as it is
\* after a successful notify.
C12_StagesInOrder ==
    /\ \A i \in 1..Len(log) : log[i].command = Commands[i]
    /\ \A i \in 1..Len(log) : \A j \in 1..(i - 1) : log[j].returncode = 0
    /\ \A i \in 1..Len(log) :
          (log[i].command \in Stages \ {"notify"} /\ log[i].returncode # 0)
              => /\ Len(log) = i
                 /\ pipeline_exit # None
                 /\ pipeline_exit[1] # 0
    /\ (pipeline_exit # None /\ Len(log) = Len(Commands)) => pipeline_exit = Some(0)

\* collect, filter and render succeeded, the notification failed, and run.py
\* has exited with 0
C12_Witness ==
    /\ Len(log) = Len(Commands)
    /\ log[Len(log)].command = "notify"
    /\ log[Len(log)].returncode # 0
    /\ pipeline_exit = Some(0)

====
